---- MODULE Spec2Model ----
(***************************************************************************)
(* Model of t03CubeFB.py: a thermal circuit (incidence matrix A,           *)
(* conductances G, capacities C, sources b and f, outputs y) is turned     *)
(* into a state-space model, solved in steady state and integrated in time *)
(* with the explicit and the implicit Euler schemes.                       *)
(*                                                                         *)
(* Two kinds of run are modelled.                                          *)
(*  - study = "cube": the cells of the file, in their written order, on    *)
(*    the 12-branch, 8-node cube.  An exception ends the run when the file *)
(*    is run as a script; when its cells are run in a notebook kernel the  *)
(*    raising cell is abandoned and the next cell runs.  Conductances are  *)
(*    integers in mW/K, capacities in J/K.  The entries of As, Bs, Cs, Ds  *)
(*    of the cube are not computed: the model keeps their shapes and the   *)
(*    inputs they were derived from.                                       *)
(*  - study = "rc": the dynamic-simulation cells on one-node circuits,     *)
(*    whose state-space model is a scalar; temperatures are carried in     *)
(*    fixed point, Scale units per degree, every division rounding down.   *)
(***************************************************************************)
EXTENDS Integers, Sequences, FiniteSets, TLC

VARIABLES
    study,      \* "cube" or "rc"
    mode,       \* "script" or "notebook"
    pc,         \* the cell to run next; "halt" after an uncaught exception; "done"
    err,        \* the exceptions raised so far: <<[kind, line]>>
    defined,    \* the names bound in the Python namespace
    Kp, A, G, C, b, f, y,
    ss,         \* what dm4bem.tc2ss returned: shapes of As, Bs, Cs, Ds and its arguments
    theta,      \* line 686
    u,          \* the input: [rows, cols, v]; cols = 0 for a one-dimensional array
    yss, ytc,
    dtmax, dt, duration, n, k,
    acc,        \* the columns the last loop step read and wrote: [read, inp, write]
    warn,       \* the warnings reported so far
    rc,         \* rc: the circuit and the inputs of the run
    temp_exp, temp_imp, \* rc: column k of the state trajectories
    net,        \* the network the cells define: the file's, or a variant of it
    calls,      \* what each call of dm4bem.tc2ss returned, in call order
    traj        \* samples of t, columns of the trajectories, how column 0 was set

vars == <<study, mode, pc, err, defined, Kp, A, G, C, b, f, y, ss, theta, u,
          yss, ytc, dtmax, dt, duration, n, k, acc, warn, rc, temp_exp, temp_imp,
          net, calls, traj>>

---------------------------------------------------------------------------
(* Helpers *)

Abs(x) == IF x < 0 THEN -x ELSE x

\* the sum of g[x] over x in S
RECURSIVE SumOver(_, _)
SumOver(S, g) ==
    IF S = {} THEN 0
    ELSE LET x == CHOOSE z \in S : TRUE IN g[x] + SumOver(S \ {x}, g)

\* the elements of a finite set of integers, ascending (np.nonzero order)
RECURSIVE Ascending(_)
Ascending(S) ==
    IF S = {} THEN << >>
    ELSE LET m == CHOOSE z \in S : \A w \in S : z <= w
         IN <<m>> \o Ascending(S \ {m})

Last(s) == s[Len(s)]

---------------------------------------------------------------------------
(* The cube: sizes and physical data *)

NBranches == 12
NNodes == 8
Branches == 0 .. (NBranches - 1)
Nodes == 0 .. (NNodes - 1)

\* wall: conductivity mW/(m K), density kg/m3, specific heat J/(kg K), width mm, surface m2
wall ==
    [Concrete   |-> [Conductivity |-> 1400, Density |-> 2300, SpecificHeat |-> 880,
                     Width |-> 200, Surface |-> 45],
     Insulation |-> [Conductivity |-> 27, Density |-> 55, SpecificHeat |-> 1210,
                     Width |-> 80, Surface |-> 45],
     Glass      |-> [Conductivity |-> 1400, Density |-> 2500, SpecificHeat |-> 750,
                     Width |-> 4, Surface |-> 9]]

\* 2 * G_cd[m], mW/K
TwoG_cd(m) == (2 * wall[m].Conductivity * wall[m].Surface * 1000) \div wall[m].Width

\* convection coefficients W/(m2 K)
h == [in |-> 8, out |-> 25]
Gw == [in |-> h.in * wall.Concrete.Surface * 1000, out |-> h.out * wall.Concrete.Surface * 1000]
Gg == [in |-> h.in * wall.Glass.Surface * 1000, out |-> h.out * wall.Glass.Surface * 1000]

\* long-wave radiative conductance, mW/K: 44.7868 W/K
GLW == 44787

\* ventilation: 1.2 kg/m3 * 1000 J/(kg K) * (1/3600 * 27) m3/s = 9 W/K
Gv == (1200 * 1000 * 27) \div 3600

\* glass, outdoor convection in series with half the conduction, mW/K
Ggs == ((Gg.out \div 1000) * (TwoG_cd("Glass") \div 1000) * 1000)
           \div ((Gg.out + TwoG_cd("Glass")) \div 1000)

\* capacities, J/K
Cwall(m) == ((wall[m].Density * wall[m].Surface * wall[m].Width) \div 1000)
               * wall[m].SpecificHeat
Cair == (1200 * 1000 * 27) \div 1000

\* the controller gain: three assignments, each overwriting the one before (mW/K)
KpAssignments == <<10000000, 1, 0>>
KpFirstAssigned == KpAssignments[1]
KpInEffect == Last(KpAssignments)

---------------------------------------------------------------------------
(* Arrays of the cube *)

Zeros(S) == [i \in S |-> 0]
ZeroMatrix == [r \in Branches |-> Zeros(Nodes)]

\* v with v[i] = val[j] at the j-th index of idx (idx, val: sequences), as x[[...]] = ...
Assign(v, idx, val) ==
    [i \in DOMAIN v |->
        IF \E j \in 1 .. Len(idx) : idx[j] = i
        THEN val[CHOOSE j \in 1 .. Len(idx) : idx[j] = i]
        ELSE v[i]]

Fill(v, idx, x) == Assign(v, idx, [j \in 1 .. Len(idx) |-> x])

NonZero(v) == Ascending({i \in DOMAIN v : v[i] # 0})

\* the writes with both ends of branch 9 written as heads
AWritesTwoHeads ==
    << <<0, 0, 1>>,
       <<1, 0, -1>>, <<1, 1, 1>>,
       <<2, 1, -1>>, <<2, 2, 1>>,
       <<3, 2, -1>>, <<3, 3, 1>>,
       <<4, 3, -1>>, <<4, 4, 1>>,
       <<5, 4, -1>>, <<5, 5, 1>>,
       <<6, 4, -1>>, <<6, 6, 1>>,
       <<7, 5, -1>>, <<7, 6, 1>>,
       <<8, 7, 1>>,
       <<9, 5, 1>>, <<9, 7, 1>>,
       <<10, 6, 1>>,
       <<11, 6, 1>> >>

\* the writes of lines 534-545, in order: <<row, column, value>>
AWrites ==
    << <<0, 0, 1>>,
       <<1, 0, -1>>, <<1, 1, 1>>,
       <<2, 1, -1>>, <<2, 2, 1>>,
       <<3, 2, -1>>, <<3, 3, 1>>,
       <<4, 3, -1>>, <<4, 4, 1>>,
       <<5, 4, -1>>, <<5, 5, 1>>,
       <<6, 4, -1>>, <<6, 6, 1>>,
       <<7, 5, -1>>, <<7, 6, 1>>,
       <<8, 7, 1>>,
       <<9, 5, 1>>, <<9, 7, -1>>,
       <<10, 6, 1>>,
       <<11, 6, 1>> >>

\* the writes with every column index from replaced by to
Redirect(ws, from, to) ==
    [m \in 1 .. Len(ws) |->
        <<ws[m][1], IF ws[m][2] = from THEN to ELSE ws[m][2], ws[m][3]>>]

\* the networks the cells may define: the file's; node 0 (no capacity) or node 7
\* (glass, with capacity) left without an incident branch; branches 8 and 9
\* referring to a node 8 that does not exist
Nets == {"file", "island0", "island7", "badindex"}

WritesOf(v) ==
    CASE v = "island0" -> Redirect(AWrites, 0, 1)
      [] v = "island7" -> Redirect(AWrites, 7, 5)
      [] v = "badindex" -> Redirect(AWrites, 7, NNodes)
      [] OTHER -> AWrites

\* an index numpy accepts for an axis of the given size (negative indices wrap)
InRange(i, size) == -size <= i /\ i < size
Wrap(i, size) == IF i < 0 THEN i + size ELSE i

\* M after the first m writes of ws
RECURSIVE ApplyWrites(_, _, _)
ApplyWrites(M, ws, m) ==
    IF m = 0 THEN M
    ELSE LET P == ApplyWrites(M, ws, m - 1)
             r == Wrap(ws[m][1], NBranches)
             c == Wrap(ws[m][2], NNodes)
         IN [P EXCEPT ![r][c] = ws[m][3]]

\* the first write whose index is out of range (IndexError), 0 if none
BadWrite(ws) ==
    LET bad == {m \in 1 .. Len(ws) :
                   ~InRange(ws[m][1], NBranches) \/ ~InRange(ws[m][2], NNodes)}
    IN IF bad = {} THEN 0 ELSE CHOOSE m \in bad : \A w \in bad : m <= w

\* line 555: the diagonal of G, mW/K
GDiag(kp) ==
    [kk \in Branches |->
        CASE kk = 0 -> Gw.out
          [] kk \in {1, 2} -> TwoG_cd("Concrete")
          [] kk \in {3, 4} -> TwoG_cd("Insulation")
          [] kk = 5 -> GLW
          [] kk = 6 -> Gw.in
          [] kk = 7 -> Gg.in
          [] kk = 8 -> Ggs
          [] kk = 9 -> TwoG_cd("Glass")
          [] kk = 10 -> Gv
          [] OTHER -> kp]

\* the diagonal of C without the capacities of the air and of the glass
CDiagWalls ==
    [i \in Nodes |->
        CASE i = 1 -> Cwall("Concrete")
          [] i = 3 -> Cwall("Insulation")
          [] OTHER -> 0]

\* line 568: the diagonal of C, J/K
CDiag ==
    [i \in Nodes |->
        CASE i = 1 -> Cwall("Concrete")
          [] i = 3 -> Cwall("Insulation")
          [] i = 6 -> Cair
          [] i = 7 -> Cwall("Glass")
          [] OTHER -> 0]

---------------------------------------------------------------------------
(* Linear algebra on the circuit, exact in integers *)

\* (A theta)[kk]
Drop(A_, th, kk) == SumOver(Nodes, [j \in Nodes |-> A_[kk][j] * th[j]])

\* the residual with every branch counted alike, whatever its conductance
ResidualUnweighted(A_, G_, b_, f_, th) ==
    [i \in Nodes |->
        SumOver(Branches,
                [kk \in Branches |-> A_[kk][i] * (b_[kk] - Drop(A_, th, kk))])
        + f_[i]]

\* A^T G (b - A theta) + f: zero exactly when theta solves the steady state
Residual(A_, G_, b_, f_, th) ==
    [i \in Nodes |->
        SumOver(Branches,
                [kk \in Branches |-> A_[kk][i] * G_[kk] * (b_[kk] - Drop(A_, th, kk))])
        + f_[i]]

\* nodes of S tied, through branches of nonzero conductance and nodes of S, to a
\* boundary or to a node outside S
RECURSIVE Tied(_, _, _, _)
Tied(A_, G_, S, T) ==
    LET T2 == T \cup
              {i \in S : \E kk \in Branches :
                  /\ G_[kk] # 0
                  /\ A_[kk][i] # 0
                  /\ \/ \A j \in Nodes \ {i} : A_[kk][j] = 0
                     \/ \E j \in (Nodes \ S) \cup T : j # i /\ A_[kk][j] # 0}
    IN IF T2 = T THEN T ELSE Tied(A_, G_, S, T2)

\* the block of A^T G A over the nodes S is invertible (conductances >= 0)
Invertible(A_, G_, S) == Tied(A_, G_, S, {}) = S

MaxTemp == 20
Uniform == {[i \in Nodes |-> T] : T \in 0 .. MaxTemp}

\* np.linalg.inv(A.T @ G @ A) @ (A.T @ G @ b + f): the solution when it is the same
\* temperature in every node; other solutions are not represented (exact = FALSE)
SteadyState(A_, G_, b_, f_) ==
    LET sol == {th \in Uniform : Residual(A_, G_, b_, f_, th) = Zeros(Nodes)}
    IN IF sol # {} THEN [exact |-> TRUE, val |-> CHOOSE th \in sol : TRUE]
       ELSE [exact |-> FALSE, val |-> Zeros(Nodes)]

\* dm4bem.tc2ss(A, G, b, C, f, y): states are the nodes with a capacity, ascending;
\* inputs are the nonzero positions of b, then those of f; outputs those of y
tc2ss(A_, G_, b_, C_, f_, y_) ==
    LET Kc == NonZero(C_)
        inb == NonZero(b_)
        inf == NonZero(f_)
        out == NonZero(y_)
    IN [states |-> Kc, inb |-> inb, inf |-> inf, out |-> out,
        nC |-> Len(Kc), nu |-> Len(inb) + Len(inf), ny |-> Len(out),
        args |-> [A |-> A_, G |-> G_, b |-> b_, C |-> C_, f |-> f_, y |-> y_]]

Algebraic(C_) == {i \in Nodes : C_[i] = 0}

---------------------------------------------------------------------------
(* The cells of the file on the cube, in written order *)

Order == <<"L300", "L533", "L555", "L568", "L581", "L592", "L603", "L640", "L655",
           "L669", "L686", "L702", "L712", "L719", "L731", "L743", "L752", "L766",
           "L782", "L792", "L800", "L808", "L817", "L828", "L845", "L856", "L870",
           "done">>

NextOf(c) == Order[(CHOOSE i \in 1 .. Len(Order) : Order[i] = c) + 1]

At(c) == study = "cube" /\ pc = c

\* the cell ran to its end
Pass(c) == pc' = NextOf(c) /\ err' = err

\* the cell raised: the script ends, the notebook goes on with the next cell
Raise(c, kind, line) ==
    /\ err' = Append(err, [kind |-> kind, line |-> line])
    /\ pc' = IF mode = "script" THEN "halt" ELSE NextOf(c)

Bind(names) == defined' = defined \cup names

\* the first of the names a statement reads that is not bound: NameError
Unbound(names) == {x \in names : x \notin defined}

rcVars == <<rc, temp_exp, temp_imp>>

\* lines 300-302
Cell300_Kp ==
    /\ At("L300")
    /\ Kp' = KpInEffect
    /\ Bind({"Kp"}) /\ Pass("L300")
    /\ UNCHANGED <<study, mode, A, G, C, b, f, y, ss, theta, u, yss, ytc,
                   dtmax, dt, duration, n, k, acc, warn, rcVars, net, calls, traj>>

\* lines 533-545
Cell533_A ==
    /\ At("L533")
    /\ LET bad == BadWrite(WritesOf(net))
       IN IF bad = 0
          THEN /\ A' = ApplyWrites(ZeroMatrix, WritesOf(net), Len(WritesOf(net)))
               /\ Pass("L533")
          ELSE /\ A' = ApplyWrites(ZeroMatrix, WritesOf(net), bad - 1)
               /\ Raise("L533", "IndexError", 533)
    /\ Bind({"A"})
    /\ UNCHANGED <<study, mode, Kp, G, C, b, f, y, ss, theta, u, yss, ytc,
                   dtmax, dt, duration, n, k, acc, warn, rcVars, net, calls, traj>>

\* lines 555-558
Cell555_G ==
    /\ At("L555")
    /\ IF "Kp" \in defined
       THEN G' = GDiag(Kp) /\ Bind({"G"}) /\ Pass("L555")
       ELSE UNCHANGED <<G, defined>> /\ Raise("L555", "NameError", 558)
    /\ UNCHANGED <<study, mode, Kp, A, C, b, f, y, ss, theta, u, yss, ytc,
                   dtmax, dt, duration, n, k, acc, warn, rcVars, net, calls, traj>>

\* lines 568-569
Cell568_C ==
    /\ At("L568")
    /\ C' = CDiag
    /\ Bind({"C"}) /\ Pass("L568")
    /\ UNCHANGED <<study, mode, Kp, A, G, b, f, y, ss, theta, u, yss, ytc,
                   dtmax, dt, duration, n, k, acc, warn, rcVars, net, calls, traj>>

\* lines 581-582: arbitrary nonzero temperature sources
Cell581_b ==
    /\ At("L581")
    /\ b' = Assign(Zeros(Branches), <<0, 8, 10, 11>>, <<10, 90, 110, 120>>)
    /\ Bind({"b"}) /\ Pass("L581")
    /\ UNCHANGED <<study, mode, Kp, A, G, C, f, y, ss, theta, u, yss, ytc,
                   dtmax, dt, duration, n, k, acc, warn, rcVars, net, calls, traj>>

\* lines 592-593: arbitrary nonzero flow sources
Cell592_f ==
    /\ At("L592")
    /\ f' = Assign(Zeros(Nodes), <<0, 4, 6, 7>>, <<1000, 5000, 7000, 8000>>)
    /\ Bind({"f"}) /\ Pass("L592")
    /\ UNCHANGED <<study, mode, Kp, A, G, C, b, y, ss, theta, u, yss, ytc,
                   dtmax, dt, duration, n, k, acc, warn, rcVars, net, calls, traj>>

\* line 603
Cell603_y ==
    /\ At("L603")
    /\ y' = [i \in Nodes |-> 1]
    /\ Bind({"y"}) /\ Pass("L603")
    /\ UNCHANGED <<study, mode, Kp, A, G, C, b, f, ss, theta, u, yss, ytc,
                   dtmax, dt, duration, n, k, acc, warn, rcVars, net, calls, traj>>

\* the source and output flags of lines 640-647, and again of lines 731-744
FlagsB == Fill(Zeros(Branches), <<0, 8, 10, 11>>, 1)
FlagsF == Fill(Zeros(Nodes), <<0, 4, 6, 7>>, 1)
FlagsY == Fill(Zeros(Nodes), <<6>>, 1)

\* lines 640-647
Cell640_flags ==
    /\ At("L640")
    /\ b' = FlagsB /\ f' = FlagsF /\ y' = FlagsY
    /\ Bind({"b", "f", "y"}) /\ Pass("L640")
    /\ UNCHANGED <<study, mode, Kp, A, G, C, ss, theta, u, yss, ytc,
                   dtmax, dt, duration, n, k, acc, warn, rcVars, net, calls, traj>>

\* [As, Bs, Cs, Ds] = dm4bem.tc2ss(A, G, b, C, f, y), lines 655 and 752
Call_tc2ss(c, line) ==
    /\ At(c)
    /\ IF Unbound({"A", "G", "b", "C", "f", "y"}) # {}
       THEN UNCHANGED <<ss, defined, calls>> /\ Raise(c, "NameError", line)
       ELSE IF ~Invertible(A, G, Algebraic(C))
            THEN UNCHANGED <<ss, defined, calls>> /\ Raise(c, "LinAlgError", line)
            ELSE /\ ss' = tc2ss(A, G, b, C, f, y)
                 /\ calls' = Append(calls, ss')
                 /\ Bind({"As", "Bs", "Cs", "Ds"}) /\ Pass(c)
    /\ UNCHANGED <<study, mode, Kp, A, G, C, b, f, y, theta, u, yss, ytc,
                   dtmax, dt, duration, n, k, acc, warn, rcVars, net, traj>>

Cell655_tc2ss == Call_tc2ss("L655", 655)

\* no temperature source at all
NoSources == Zeros(Branches)

\* lines 669-673: the sources of the steady-state check
SteadyB == Assign(Zeros(Branches), <<0, 8, 10, 11>>, <<10, 10, 10, 20>>)

Cell669_sources ==
    /\ At("L669")
    /\ b' = SteadyB /\ f' = Zeros(Nodes)
    /\ Bind({"b", "f"}) /\ Pass("L669")
    /\ UNCHANGED <<study, mode, Kp, A, G, C, y, ss, theta, u, yss, ytc,
                   dtmax, dt, duration, n, k, acc, warn, rcVars, net, calls, traj>>

\* np.linalg.inv(A.T @ G @ A) @ (A.T @ G @ b + f)
Solve(c, line, name) ==
    IF Unbound({"A", "G", "b", "f"}) # {}
    THEN UNCHANGED defined /\ Raise(c, "NameError", line)
    ELSE IF ~Invertible(A, G, Nodes)
         THEN UNCHANGED defined /\ Raise(c, "LinAlgError", line)
         ELSE Bind({name}) /\ Pass(c)

\* line 686
Cell686_theta ==
    /\ At("L686")
    /\ Solve("L686", 686, "theta")
    /\ theta' = IF "theta" \in defined' THEN SteadyState(A, G, b, f) ELSE theta
    /\ UNCHANGED <<study, mode, Kp, A, G, C, b, f, y, ss, u, yss, ytc,
                   dtmax, dt, duration, n, k, acc, warn, rcVars, net, calls, traj>>

\* np.hstack([b[np.nonzero(b)], f[np.nonzero(f)]])
StackNonZero(b_, f_) ==
    LET ib == NonZero(b_)
        if == NonZero(f_)
    IN [j \in 1 .. Len(ib) |-> b_[ib[j]]] \o [j \in 1 .. Len(if) |-> f_[if[j]]]

\* line 702
Cell702_u ==
    /\ At("L702")
    /\ u' = [rows |-> Len(StackNonZero(b, f)), cols |-> 0, v |-> StackNonZero(b, f)]
    /\ Bind({"u"}) /\ Pass("L702")
    /\ UNCHANGED <<study, mode, Kp, A, G, C, b, f, y, ss, theta, yss, ytc,
                   dtmax, dt, duration, n, k, acc, warn, rcVars, net, calls, traj>>

\* line 712: (-Cs @ inv(As) @ Bs + Ds) is ny x nu; @ u needs nu = len(u)
Cell712_yss ==
    /\ At("L712")
    /\ IF Unbound({"As", "Bs", "Cs", "Ds", "u"}) # {}
       THEN UNCHANGED <<yss, defined>> /\ Raise("L712", "NameError", 712)
       ELSE IF ss.nu # u.rows
            THEN UNCHANGED <<yss, defined>> /\ Raise("L712", "ValueError", 712)
            ELSE /\ yss' = [rows |-> ss.ny, u |-> u.v, args |-> ss.args]
                 /\ Bind({"yss"}) /\ Pass("L712")
    /\ UNCHANGED <<study, mode, Kp, A, G, C, b, f, y, ss, theta, u, ytc,
                   dtmax, dt, duration, n, k, acc, warn, rcVars, net, calls, traj>>

\* lines 719-721: print yss, ytc and the largest difference
Cell719_compare ==
    /\ At("L719")
    /\ IF "yss" \notin defined THEN Raise("L719", "NameError", 719)
       ELSE IF "ytc" \notin defined THEN Raise("L719", "NameError", 720)
            ELSE Pass("L719")
    /\ UNCHANGED <<study, mode, defined, Kp, A, G, C, b, f, y, ss, theta, u, yss, ytc,
                   dtmax, dt, duration, n, k, acc, warn, rcVars, net, calls, traj>>

\* the cell of lines 731-735 left out: b and f stay as they were
Cell731_skipped ==
    /\ At("L731")
    /\ Pass("L731")
    /\ UNCHANGED <<study, mode, defined, Kp, A, G, C, b, f, y, ss, theta, u, yss, ytc,
                   dtmax, dt, duration, n, k, acc, warn, rcVars, net, calls, traj>>

\* lines 731-735
Cell731_flags ==
    /\ At("L731")
    /\ b' = FlagsB /\ f' = FlagsF
    /\ Bind({"b", "f"}) /\ Pass("L731")
    /\ UNCHANGED <<study, mode, Kp, A, G, C, y, ss, theta, u, yss, ytc,
                   dtmax, dt, duration, n, k, acc, warn, rcVars, net, calls, traj>>

\* lines 743-744
Cell743_y ==
    /\ At("L743")
    /\ y' = FlagsY
    /\ Bind({"y"}) /\ Pass("L743")
    /\ UNCHANGED <<study, mode, Kp, A, G, C, b, f, ss, theta, u, yss, ytc,
                   dtmax, dt, duration, n, k, acc, warn, rcVars, net, calls, traj>>

Cell752_tc2ss == Call_tc2ss("L752", 752)

\* a value of dtmax: num / den, or an infinity, or (the cube) the minimum of -2 / lambda
\* over the spectrum of a matrix whose entries the model does not carry
Number(num, den) ==
    IF den < 0 THEN [kind |-> "finite", num |-> -num, den |-> -den]
    ELSE [kind |-> "finite", num |-> num, den |-> den]

\* a step below, above a value of dtmax
Below(step, dmax) ==
    dmax.kind = "+inf" \/ (dmax.kind = "finite" /\ step * dmax.den < dmax.num)
Above(step, dmax) ==
    dmax.kind = "-inf" \/ (dmax.kind = "finite" /\ step * dmax.den > dmax.num)
Infinite(sign) == [kind |-> sign, num |-> 0, den |-> 1]
OfSpectrum == [kind |-> "spectrum", num |-> 0, den |-> 1]

\* line 766 on the cube
Cell766_dtmax ==
    /\ At("L766")
    /\ IF "As" \notin defined
       THEN UNCHANGED <<dtmax, defined>> /\ Raise("L766", "NameError", 766)
       ELSE dtmax' = OfSpectrum /\ Bind({"dtmax"}) /\ Pass("L766")
    /\ UNCHANGED <<study, mode, Kp, A, G, C, b, f, y, ss, theta, u, yss, ytc,
                   dt, duration, n, k, acc, warn, rcVars, net, calls, traj>>

\* line 782
ScriptDt == 240

Cell782_dt ==
    /\ At("L782")
    /\ dt' = ScriptDt
    /\ Bind({"dt"}) /\ Pass("L782")
    /\ UNCHANGED <<study, mode, Kp, A, G, C, b, f, y, ss, theta, u, yss, ytc,
                   dtmax, duration, n, k, acc, warn, rcVars, net, calls, traj>>

\* line 792
ScriptDuration == 3600 * 24 * 2

Cell792_duration ==
    /\ At("L792")
    /\ duration' = ScriptDuration
    /\ Bind({"duration"}) /\ Pass("L792")
    /\ UNCHANGED <<study, mode, Kp, A, G, C, b, f, y, ss, theta, u, yss, ytc,
                   dtmax, dt, n, k, acc, warn, rcVars, net, calls, traj>>

\* line 800: int(np.floor(duration / dt))
NumberOfSteps(dur, step) == dur \div step

Cell800_n ==
    /\ At("L800")
    /\ IF Unbound({"duration", "dt"}) # {}
       THEN UNCHANGED <<n, defined>> /\ Raise("L800", "NameError", 800)
       ELSE n' = NumberOfSteps(duration, dt) /\ Bind({"n"}) /\ Pass("L800")
    /\ UNCHANGED <<study, mode, Kp, A, G, C, b, f, y, ss, theta, u, yss, ytc,
                   dtmax, dt, duration, k, acc, warn, rcVars, net, calls, traj>>

\* the length of np.arange(0, stop, step): ceil(stop / step)
Arange(stop, step) == (stop + step - 1) \div step

\* line 808: t = np.arange(0, n * dt, dt)
Cell808_t ==
    /\ At("L808")
    /\ IF Unbound({"n", "dt"}) # {}
       THEN UNCHANGED <<defined, traj>> /\ Raise("L808", "NameError", 808)
       ELSE /\ traj' = [traj EXCEPT !.t = Arange(n * dt, dt)]
            /\ Bind({"t"}) /\ Pass("L808")
    /\ UNCHANGED <<study, mode, Kp, A, G, C, b, f, y, ss, theta, u, yss, ytc,
                   dtmax, dt, duration, n, k, acc, warn, rcVars, net, calls>>

\* lines 817-820: u = np.zeros([8, n]); u[0:3, :] = 1
StepInput == <<1, 1, 1, 0, 0, 0, 0, 0>>

Cell817_u ==
    /\ At("L817")
    /\ IF Unbound({"As", "n"}) # {}
       THEN UNCHANGED <<u, defined>> /\ Raise("L817", "NameError", 817)
       ELSE /\ u' = [rows |-> Len(StepInput), cols |-> n, v |-> StepInput]
            /\ Bind({"n_tC", "u"}) /\ Pass("L817")
    /\ UNCHANGED <<study, mode, Kp, A, G, C, b, f, y, ss, theta, yss, ytc,
                   dtmax, dt, duration, n, k, acc, warn, rcVars, net, calls, traj>>

NoAccess == [read |-> -1, inp |-> -1, write |-> -1]

\* a loop over every sample
RangeAll(m) == m

\* range(n - 1), range(u.shape[0] - 1): the loop variable takes 0 .. m - 2
Range(m) == m - 1

\* lines 828-829: both trajectories are np.zeros([n_tC, t.shape[0]]); nothing else
\* sets their column 0
Cell828_temp ==
    /\ At("L828")
    /\ IF Unbound({"n_tC", "t"}) # {}
       THEN UNCHANGED <<defined, traj>> /\ Raise("L828", "NameError", 828)
       ELSE /\ traj' = [traj EXCEPT !.cols = traj.t, !.init = "zeros"]
            /\ Bind({"temp_exp", "temp_imp"}) /\ Pass("L828")
    /\ UNCHANGED <<study, mode, Kp, A, G, C, b, f, y, ss, theta, u, yss, ytc,
                   dtmax, dt, duration, n, k, acc, warn, rcVars, net, calls>>

\* line 845, and the loop header of line 846
Cell845_I ==
    /\ At("L845")
    /\ IF Unbound({"n_tC", "n"}) # {}
       THEN UNCHANGED <<defined, k, acc>> /\ Raise("L845", "NameError", 845)
       ELSE /\ k' = 0 /\ acc' = NoAccess
            /\ Bind({"I"})
            /\ pc' = "L846" /\ err' = err
    /\ UNCHANGED <<study, mode, Kp, A, G, C, b, f, y, ss, theta, u, yss, ytc,
                   dtmax, dt, duration, n, warn, rcVars, net, calls, traj>>

\* lines 847-848 on the cube: the shapes of the products, and the columns touched
Loop846_step ==
    /\ study = "cube" /\ pc = "L846" /\ k < Range(n)
    /\ IF Unbound({"temp_exp", "temp_imp", "dt", "As", "Bs", "u"}) # {}
       THEN UNCHANGED <<k, acc>> /\ Raise("L845", "NameError", 847)
       ELSE IF ss.nu # u.rows \/ k >= u.cols
            THEN UNCHANGED <<k, acc>> /\ Raise("L845", "ValueError", 847)
            ELSE /\ acc' = [read |-> k, inp |-> k, write |-> k + 1]
                 /\ k' = k + 1
                 /\ UNCHANGED <<pc, err>>
    /\ UNCHANGED <<study, mode, defined, Kp, A, G, C, b, f, y, ss, theta, u, yss, ytc,
                   dtmax, dt, duration, n, warn, rcVars, net, calls, traj>>

Loop846_exit ==
    /\ study = "cube" /\ pc = "L846" /\ k >= Range(n)
    /\ Pass("L845")
    /\ UNCHANGED <<study, mode, defined, Kp, A, G, C, b, f, y, ss, theta, u, yss, ytc,
                   dtmax, dt, duration, n, k, acc, warn, rcVars, net, calls, traj>>

\* lines 856-864: y_exp = Cs @ temp_exp + Ds @ u, y_imp likewise
Cell856_outputs ==
    /\ At("L856")
    /\ IF Unbound({"Cs", "Ds", "temp_exp", "temp_imp", "u", "t"}) # {}
       THEN UNCHANGED defined /\ Raise("L856", "NameError", 856)
       ELSE IF ss.nu # u.rows
            THEN UNCHANGED defined /\ Raise("L856", "ValueError", 856)
            ELSE Bind({"y_exp", "y_imp"}) /\ Pass("L856")
    /\ UNCHANGED <<study, mode, Kp, A, G, C, b, f, y, ss, theta, u, yss, ytc,
                   dtmax, dt, duration, n, k, acc, warn, rcVars, net, calls, traj>>

\* lines 870-872: unit outdoor temperature, no flow source
UnitB == Fill(Zeros(Branches), <<0, 8, 10>>, 1)

\* lines 870-877
Cell870_ytc ==
    /\ At("L870")
    /\ b' = UnitB /\ f' = Zeros(Nodes)
    /\ IF Unbound({"A", "G"}) # {}
       THEN /\ defined' = defined \cup {"b", "f"} /\ ytc' = ytc
            /\ Raise("L870", "NameError", 874)
       ELSE IF ~Invertible(A, G, Nodes)
            THEN /\ defined' = defined \cup {"b", "f"} /\ ytc' = ytc
                 /\ Raise("L870", "LinAlgError", 874)
            ELSE /\ ytc' = [exact |-> SteadyState(A, G, b', f').exact,
                            val |-> SteadyState(A, G, b', f').val,
                            b |-> b', f |-> f']
                 /\ IF "y_exp" \in defined
                    THEN defined' = defined \cup {"b", "f", "ytc"} /\ Pass("L870")
                    ELSE /\ defined' = defined \cup {"b", "f", "ytc"}
                         /\ Raise("L870", "NameError", 877)
    /\ UNCHANGED <<study, mode, Kp, A, G, C, y, ss, theta, u, yss,
                   dtmax, dt, duration, n, k, acc, warn, rcVars, net, calls, traj>>

---------------------------------------------------------------------------
(* One-node circuits: a node with capacity cap, tied to a temperature source by  *)
(* one branch of conductance g.  A = [[1]], G = [[g]], C = [[cap]], b = [1],    *)
(* f = [0], y = [1].  The state-space model is scalar: As = AsNum / Den,        *)
(* Bs = BsNum / Den, Cs = 1, Ds = 0.                                            *)

Scale == 100000          \* fixed-point units per degree
ThetaCap == 2100000      \* magnitudes above this are kept but no longer advanced
NSamples == 720          \* samples of a run (the file: 172800 / 240)
NData == 48              \* samples of the resampled weather data

RcCircuits ==
    {[g |-> 10, cap |-> 1000, dt |-> 1]}
    \cup {[g |-> 1, cap |-> 100, dt |-> d] : d \in {25, 150, 200, 250, 500}}
    \cup {[g |-> 0, cap |-> 100, dt |-> 100]}
    \cup {[g |-> -1, cap |-> 100, dt |-> d] : d \in {50, 100}}

RcInputs ==
    {[input |-> "step", amp |-> a] : a \in {1, 10}}
    \cup {[input |-> "weather", amp |-> 5]}

RcRuns ==
    {[g |-> c.g, cap |-> c.cap, dt |-> c.dt, input |-> i.input, amp |-> i.amp] :
        c \in RcCircuits, i \in RcInputs}

NoRun == [g |-> 0, cap |-> 0, dt |-> 0, input |-> "none", amp |-> 0]

One == {0}

\* As = -C^-1 (A^T G A), Bs = C^-1 A^T G over the flagged branch, as numerators
\* over the common denominator Den = C
AsNum(s) == -(s.args.A[0][0] * s.args.G[0] * s.args.A[0][0])
BsNum(s) == s.args.A[0][0] * s.args.G[0]
Den(s) == s.args.C[0]

\* the outdoor temperature of sample kk, degrees: constant for the step response,
\* a three-sample pattern for the weather series
Series(r, kk) ==
    IF r.input = "weather" THEN r.amp + 2 * (kk % 3) ELSE r.amp

\* u[:, kk] (line 847), u.iloc[kk, :] (line 967), in fixed point
InputAt(r, kk) == Series(r, kk) * Scale

\* a step clamped to a positive dtmax
StepClamped(step, dmax) ==
    IF Above(step, dmax) /\ dmax.kind = "finite" /\ dmax.num > 0
    THEN dmax.num \div dmax.den
    ELSE step

\* the step the integration uses: dt as configured
StepUsed(step, dmax) == step

\* a scheme that leaves the state where it is
HoldState(s, step, th, uk) == th

\* line 847: (I + dt * As) @ temp_exp[:, k] + dt * Bs @ u[:, k]
ExplicitEuler(s, step, th, uk) ==
    ((Den(s) + step * AsNum(s)) * th + step * BsNum(s) * uk) \div Den(s)

\* the implicit update without the inverse: temp_imp[:, k] + dt * Bs @ u[:, k]
ImplicitNoInverse(s, step, th, uk) ==
    (Den(s) * th + step * BsNum(s) * uk) \div Den(s)

\* line 848: np.linalg.inv(I - dt * As) @ (temp_imp[:, k] + dt * Bs @ u[:, k])
ImplicitSingular(s, step) == Den(s) - step * AsNum(s) = 0

ImplicitEuler(s, step, th, uk) ==
    (Den(s) * th + step * BsNum(s) * uk) \div (Den(s) - step * AsNum(s))

\* a value the model still advances
Carried(x) == Abs(x) <= ThetaCap
Advance(x, next) == IF Carried(x) THEN next ELSE x

AtRc(c) == study = "rc" /\ pc = c

RcRaise(kind, line) ==
    /\ err' = Append(err, [kind |-> kind, line |-> line])
    /\ pc' = "halt"

cubeVars == <<Kp, theta, yss>>

\* line 752 on the one-node circuit
Rc752_tc2ss ==
    /\ AtRc("R752")
    /\ ss' = tc2ss(A, G, b, C, f, y)
    /\ calls' = Append(calls, ss')
    /\ Bind({"As", "Bs", "Cs", "Ds"})
    /\ pc' = "R766"
    /\ UNCHANGED <<study, mode, err, A, G, C, b, f, y, u, ytc, dtmax, dt, duration,
                   n, k, acc, warn, rc, temp_exp, temp_imp, cubeVars, net, traj>>

\* line 766: min(-2. / np.linalg.eig(As)[0]); the only eigenvalue is As itself.
\* A zero eigenvalue divides by zero: numpy warns and gives an infinity whose sign
\* is that of the zero.
EigDtmax(s) ==
    IF AsNum(s) = 0 THEN {Infinite("+inf"), Infinite("-inf")}
    ELSE {Number(-2 * Den(s), AsNum(s))}

Rc766_dtmax ==
    /\ AtRc("R766")
    /\ dtmax' \in EigDtmax(ss)
    /\ warn' = IF AsNum(ss) = 0
               THEN Append(warn, [kind |-> "RuntimeWarning", line |-> 766])
               ELSE warn
    /\ Bind({"dtmax"})
    /\ pc' = "R782"
    /\ UNCHANGED <<study, mode, err, A, G, C, b, f, y, ss, u, ytc, dt, duration,
                   n, k, acc, rc, temp_exp, temp_imp, cubeVars, net, calls, traj>>

\* lines 782-829: dt, duration, n, t, u and the two zero trajectories;
\* lines 919-957 for the weather series: data has NData samples, t and u as many,
\* and temp_exp = 20 * np.ones([As.shape[0], u.shape[0]])
Rc782_configure ==
    /\ AtRc("R782")
    /\ dt' = rc.dt
    /\ duration' = NSamples * rc.dt
    /\ n' = NumberOfSteps(duration', dt')
    /\ k' = 0 /\ acc' = NoAccess
    /\ IF rc.input = "step"
       THEN /\ u' = [rows |-> 1, cols |-> n', v |-> <<Series(rc, 0)>>]
            /\ traj' = [t |-> Arange(n' * dt', dt'), cols |-> Arange(n' * dt', dt'),
                        init |-> "zeros"]
            /\ temp_exp' = 0 /\ temp_imp' = 0 /\ pc' = "R846"
       ELSE /\ u' = [rows |-> 1, cols |-> NData, v |-> <<Series(rc, 0)>>]
            /\ traj' = [t |-> NData, cols |-> NData, init |-> "value"]
            /\ temp_exp' = 20 * Scale /\ temp_imp' = 0 /\ pc' = "R966"
    /\ Bind({"dt", "duration", "n", "t", "n_tC", "u", "temp_exp", "temp_imp", "I"})
    /\ UNCHANGED <<study, mode, err, A, G, C, b, f, y, ss, ytc, dtmax,
                   warn, rc, cubeVars, net, calls>>

\* lines 846-848: one pass of the loop body.  When np.linalg.inv raises, line 847
\* has already written column k + 1 of temp_exp.
Rc846_step ==
    /\ AtRc("R846") /\ k < Range(n)
    /\ temp_exp' = Advance(temp_exp,
                       ExplicitEuler(ss, StepUsed(dt, dtmax), temp_exp, InputAt(rc, k)))
    /\ acc' = [read |-> k, inp |-> k, write |-> k + 1]
    /\ IF ImplicitSingular(ss, dt)
       THEN /\ temp_imp' = temp_imp /\ k' = k
            /\ RcRaise("LinAlgError", 848)
       ELSE /\ temp_imp' = Advance(temp_imp,
                               ImplicitEuler(ss, dt, temp_imp, InputAt(rc, k)))
            /\ k' = k + 1
            /\ UNCHANGED <<pc, err>>
    /\ UNCHANGED <<study, mode, defined, A, G, C, b, f, y, ss, u, ytc, dtmax, dt,
                   duration, n, warn, rc, cubeVars, net, calls, traj>>

Rc846_exit ==
    /\ AtRc("R846") /\ k >= Range(n)
    /\ pc' = "R870"
    /\ UNCHANGED <<study, mode, err, defined, A, G, C, b, f, y, ss, u, ytc, dtmax, dt,
                   duration, n, k, acc, warn, rc, temp_exp, temp_imp, cubeVars, net, calls, traj>>

\* lines 870-874: the direct solution for the source of the step
RcSteady(A_, G_, b_, f_) ==
    LET sol == {T \in 0 .. MaxTemp :
                   A_[0][0] * G_[0] * (b_[0] - A_[0][0] * T) + f_[0] = 0}
    IN [exact |-> sol # {},
        val |-> [i \in One |-> IF sol # {} THEN CHOOSE T \in sol : TRUE ELSE 0],
        b |-> b_, f |-> f_]

Rc870_ytc ==
    /\ AtRc("R870")
    /\ b' = [i \in One |-> rc.amp] /\ f' = [i \in One |-> 0]
    /\ IF G[0] = 0
       THEN /\ ytc' = ytc /\ defined' = defined
            /\ RcRaise("LinAlgError", 874)
       ELSE /\ ytc' = RcSteady(A, G, b', f')
            /\ Bind({"ytc"})
            /\ pc' = "done" /\ err' = err
    /\ UNCHANGED <<study, mode, A, G, C, y, ss, u, dtmax, dt, duration,
                   n, k, acc, warn, rc, temp_exp, temp_imp, cubeVars, net, calls, traj>>

\* lines 966-967: the explicit loop over the weather series
Rc966_step ==
    /\ AtRc("R966") /\ k < Range(u.cols)
    /\ temp_exp' = Advance(temp_exp,
                       ExplicitEuler(ss, StepUsed(dt, dtmax), temp_exp, InputAt(rc, k)))
    /\ acc' = [read |-> k, inp |-> k, write |-> k + 1]
    /\ k' = k + 1
    /\ UNCHANGED <<study, mode, pc, err, defined, A, G, C, b, f, y, ss, u, ytc, dtmax,
                   dt, duration, n, warn, rc, temp_imp, cubeVars, net, calls, traj>>

Rc966_exit ==
    /\ AtRc("R966") /\ k >= Range(u.cols)
    /\ pc' = "done"
    /\ UNCHANGED <<study, mode, err, defined, A, G, C, b, f, y, ss, u, ytc, dtmax, dt,
                   duration, n, k, acc, warn, rc, temp_exp, temp_imp, cubeVars, net, calls, traj>>

---------------------------------------------------------------------------
(* Specification *)

NoSolution(S, b_, f_) == [exact |-> FALSE, val |-> Zeros(S), b |-> b_, f |-> f_]

InitCommon ==
    /\ err = << >> /\ warn = << >>
    /\ Kp = 0
    /\ u = [rows |-> 0, cols |-> 0, v |-> << >>]
    /\ dtmax = OfSpectrum
    /\ dt = 0 /\ duration = 0 /\ n = 0 /\ k = 0 /\ acc = NoAccess
    /\ temp_exp = 0 /\ temp_imp = 0
    /\ calls = << >>
    /\ traj = [t |-> 0, cols |-> 0, init |-> "none"]

InitCube ==
    /\ study = "cube"
    /\ mode \in {"script", "notebook"}
    /\ pc = "L300"
    /\ defined = {}
    /\ A = ZeroMatrix /\ G = Zeros(Branches) /\ C = Zeros(Nodes)
    /\ b = Zeros(Branches) /\ f = Zeros(Nodes) /\ y = Zeros(Nodes)
    /\ ss = tc2ss(A, G, b, C, f, y)
    /\ theta = [exact |-> FALSE, val |-> Zeros(Nodes)]
    /\ yss = [rows |-> 0, u |-> << >>, args |-> ss.args]
    /\ ytc = NoSolution(Nodes, b, f)
    /\ rc = NoRun
    /\ net \in Nets
    /\ InitCommon

InitRc ==
    /\ study = "rc"
    /\ mode = "script"
    /\ pc = "R752"
    /\ rc \in RcRuns
    /\ defined = {"A", "G", "C", "b", "f", "y"}
    /\ A = [kk \in One |-> [i \in One |-> 1]]
    /\ G = [kk \in One |-> rc.g]
    /\ C = [i \in One |-> rc.cap]
    /\ b = [kk \in One |-> 1] /\ f = Zeros(One) /\ y = [i \in One |-> 1]
    /\ ss = tc2ss(A, Zeros(One), Zeros(One), Zeros(One), f, Zeros(One))
    /\ theta = [exact |-> FALSE, val |-> Zeros(One)]
    /\ yss = [rows |-> 0, u |-> << >>, args |-> ss.args]
    /\ ytc = NoSolution(One, b, f)
    /\ net = "one"
    /\ InitCommon

Init == InitCube \/ InitRc

Next ==
    \/ Cell300_Kp \/ Cell533_A \/ Cell555_G \/ Cell568_C
    \/ Cell581_b \/ Cell592_f \/ Cell603_y
    \/ Cell640_flags \/ Cell655_tc2ss
    \/ Cell669_sources \/ Cell686_theta \/ Cell702_u \/ Cell712_yss \/ Cell719_compare
    \/ Cell731_flags \/ Cell743_y \/ Cell752_tc2ss \/ Cell766_dtmax \/ Cell782_dt
    \/ Cell792_duration \/ Cell800_n \/ Cell808_t \/ Cell817_u \/ Cell828_temp
    \/ Cell845_I \/ Loop846_step \/ Loop846_exit \/ Cell856_outputs \/ Cell870_ytc
    \/ Rc752_tc2ss \/ Rc766_dtmax \/ Rc782_configure
    \/ Rc846_step \/ Rc846_exit \/ Rc870_ytc
    \/ Rc966_step \/ Rc966_exit

Spec == Init /\ [][Next]_vars

---------------------------------------------------------------------------
(* Properties of the cube *)

\* the input the reduced model expects: the values at the flagged branches, then
\* those at the flagged nodes
ExpectedInput(s, b_, f_) ==
    [j \in 1 .. Len(s.inb) |-> b_[s.inb[j]]] \o [j \in 1 .. Len(s.inf) |-> f_[s.inf[j]]]

\* the next statement multiplies u with the reduced model
Multiplies ==
    /\ study = "cube"
    /\ pc \in {"L712", "L846", "L856"}
    /\ {"As", "Bs", "Cs", "Ds", "u"} \subseteq defined

\* C1: every u multiplied with the reduced model has n_u entries, one per flagged
\* source position, flagged branches first and flagged nodes after; the u of the
\* steady-state check (line 702) has as many entries as Bs and Ds have columns.
C1_InputMatchesModel ==
    Multiplies =>
        /\ u.rows = ss.nu
        /\ pc = "L712" => u.v = ExpectedInput(ss, b, f)

\* the exceptions raised at the lines first .. last
RaisedAt(first, last) == {i \in 1 .. Len(err) : err[i].line \in first .. last}

\* the rows of a node vector that y selects
Selected(y_, th) == [j \in 1 .. Len(NonZero(y_)) |-> th[NonZero(y_)[j]]]

\* C2: the steady-state output of the reduced model, yss, equals the rows selected
\* by y of the direct solution; both are computed, have n_y entries and come from
\* the same b and f.
C2_SteadyStateAgrees ==
    (study = "cube" /\ pc \in {"halt", "done"}) =>
        /\ RaisedAt(712, 721) = {}
        /\ {"yss", "ytc"} \subseteq defined
        /\ yss.rows = ss.ny
        /\ Len(Selected(yss.args.y, ytc.val)) = yss.rows
        /\ yss.u = ExpectedInput(ss, ytc.b, ytc.f)

\* C3: every diagonal entry of the G handed to assembly, steady-state solve or
\* reduction is strictly positive (and finite), branch 11 (gain Kp) included.
C3_ConductancesPositive ==
    (study = "cube" /\ "G" \in defined) => \A kk \in Branches : G[kk] > 0

NonZeroAt(row) == {j \in DOMAIN row : row[j] # 0}

\* the branches that leave a temperature source (flagged in b, lines 641, 732)
SourceBranches == {kk \in Branches : FlagsB[kk] # 0}

\* C4: A has one row per branch and one column per node, entries -1, 0, +1, in
\* every row at least one nonzero entry, at most one +1 and at most one -1; the
\* rows with a single nonzero entry are the branches tied to a source, and every
\* index written exists.
C4_IncidenceMatrix ==
    (study = "cube" /\ net = "file" /\ "A" \in defined) =>
        /\ DOMAIN A = Branches
        /\ \A kk \in Branches :
              /\ DOMAIN A[kk] = Nodes
              /\ \A j \in Nodes : A[kk][j] \in {-1, 0, 1}
              /\ NonZeroAt(A[kk]) # {}
              /\ Cardinality({j \in Nodes : A[kk][j] = 1}) <= 1
              /\ Cardinality({j \in Nodes : A[kk][j] = -1}) <= 1
              /\ Cardinality(NonZeroAt(A[kk])) = 1 <=> kk \in SourceBranches
        /\ \A m \in 1 .. Len(AWrites) :
              AWrites[m][1] \in Branches /\ AWrites[m][2] \in Nodes
        /\ RaisedAt(533, 545) = {}

C4_Witness ==
    /\ study = "cube" /\ net = "file" /\ "A" \in defined /\ pc = "L555"
    /\ A[9][5] = 1 /\ A[9][7] = -1
    /\ NonZeroAt(A[11]) = {6}

---------------------------------------------------------------------------
(* Properties of the integration *)

\* 0.01 degree
Tol == Scale \div 100

\* the run integrates a step of the source on a circuit of positive conductance
StepRun == study = "rc" /\ rc.input = "step" /\ rc.g > 0

Integrating == pc \in {"R846", "R870", "done"}

\* C5: every explicit step k = 0 .. n-2 writes column k + 1 as
\* (I + dt As) theta[k] + dt Bs u[k], with dt as configured, above dtmax or not,
\* and the input sample of the same index k.
C5_ExplicitStep ==
    [][/\ (Rc846_step \/ Rc966_step) =>
             /\ k \in 0 .. u.cols - 2
             /\ acc' = [read |-> k, inp |-> k, write |-> k + 1]
             /\ Carried(temp_exp) =>
                   temp_exp' = ((Den(ss) + dt * AsNum(ss)) * temp_exp
                                + dt * BsNum(ss) * (Series(rc, k) * Scale)) \div Den(ss)
       /\ (Loop846_step /\ err' = err) =>
             /\ k \in 0 .. n - 2
             /\ acc' = [read |-> k, inp |-> k, write |-> k + 1]
             /\ dt' = ScriptDt]_vars

C5_Witness ==
    /\ study = "rc" /\ rc.input = "weather" /\ pc = "R966"
    /\ Above(dt, dtmax) /\ dtmax.num > 0
    /\ acc = [read |-> 2, inp |-> 2, write |-> 3] /\ k = 3
    /\ temp_exp # 20 * Scale

\* C6: every implicit step writes (I - dt As)^-1 (theta[k] + dt Bs u[k]); when
\* I - dt As is singular the step fails with IntegrationError and produces no
\* state value.
C6_ImplicitStep ==
    [][Rc846_step =>
          IF Den(ss) - dt * AsNum(ss) = 0
          THEN /\ err' = Append(err, [kind |-> "IntegrationError", line |-> 848])
               /\ temp_exp' = temp_exp /\ temp_imp' = temp_imp
          ELSE Carried(temp_imp) =>
                  temp_imp' = (Den(ss) * temp_imp
                               + dt * BsNum(ss) * (Series(rc, k) * Scale))
                              \div (Den(ss) - dt * AsNum(ss))]_vars

\* the capacitive nodes, and the node (or -1, the ground) each node is lumped on
Capacitive(C_) == {i \in Nodes : C_[i] # 0}
Lump == [i \in Nodes |-> CASE i = 0 -> -1 [] i = 2 -> 1 [] i = 4 -> 6 [] i = 5 -> 7
                           [] OTHER -> i]

\* conductance in W/K, rounded up
WattsUp(g) == (g + 999) \div 1000

\* the entry of branch kk on node p once the nodes are lumped
LumpedEntry(A_, kk, p) ==
    SumOver({j \in Nodes : Lump[j] = p}, [j \in Nodes |-> A_[kk][j]])

\* the lumped conductance matrix: an upper bound, in the order of quadratic forms,
\* of the conductance matrix reduced to the capacitive nodes
Lumped(a, p, q) ==
    SumOver(Branches,
            [kk \in Branches |->
                WattsUp(a.G[kk]) * LumpedEntry(a.A, kk, p) * LumpedEntry(a.A, kk, q)])

\* 2 C - step * Lumped
Margin(a, step, p, q) ==
    (IF p = q THEN 2 * a.C[p] ELSE 0) - step * Lumped(a, p, q)

Weights == [i \in Nodes |-> CASE i = 6 -> 20 [] i = 7 -> 15 [] OTHER -> 2]

\* 2 C - step * Lumped is positive definite (weighted diagonal dominance); then all
\* eigenvalues of As are above -2 / step, that is step < min(-2 / lambda)
StepBelowDtmax(a, step) ==
    /\ \A i \in Capacitive(a.C) : Lump[i] = i
    /\ \A i \in Nodes : Lump[i] = -1 \/ Lump[i] \in Capacitive(a.C)
    /\ \A kk \in Branches : a.G[kk] >= 0
    /\ \A p \in Capacitive(a.C) :
          Weights[p] * Margin(a, step, p, p)
            > SumOver(Capacitive(a.C) \ {p},
                      [q \in Nodes |-> Weights[q] * Abs(Margin(a, step, p, q))])

\* C7: with a constant input, explicit Euler with dt below dtmax ends at the
\* steady state of the direct solve; with dt above dtmax the trajectory leaves
\* every bound; the dt of the file is below the dtmax of the As in effect.
C7_ExplicitStability ==
    /\ (StepRun /\ pc = "done") =>
          /\ Below(dt, dtmax) =>
                ytc.exact /\ Abs(temp_exp - ytc.val[0] * Scale) <= Tol
          /\ Above(dt, dtmax) => ~Carried(temp_exp)
    /\ (study = "cube" /\ net = "file" /\ {"As", "dt"} \subseteq defined) =>
          StepBelowDtmax(ss.args, dt)

C7_Witness ==
    /\ StepRun /\ pc = "done"
    /\ Above(dt, dtmax)
    /\ k = n - 1
    /\ temp_exp > ThetaCap

\* C8: with a constant input and any positive dt, the implicit trajectory stays
\* bounded and ends at the steady value, the one explicit Euler ends at when dt is
\* below dtmax.
C8_ImplicitStability ==
    (StepRun /\ Integrating) =>
        /\ 0 <= temp_imp /\ temp_imp <= rc.amp * Scale
        /\ pc # "R846" =>
              /\ Abs(temp_imp - rc.amp * Scale) <= Tol
              /\ Below(dt, dtmax) => Abs(temp_imp - temp_exp) <= Tol

C8_Witness ==
    /\ StepRun /\ pc = "done"
    /\ dt * rc.g > 4 * rc.cap
    /\ temp_imp > 0 /\ Abs(temp_imp - rc.amp * Scale) <= Tol
    /\ ~Carried(temp_exp)

\* the circuit with G = 10, C = 1000, source 10, dt = 1
TestRun ==
    /\ study = "rc" /\ Integrating
    /\ rc = [g |-> 10, cap |-> 1000, dt |-> 1, input |-> "step", amp |-> 10]

TimeConstant == rc.cap \div rc.g

\* C9 as stated: from 5 time constants (500 s) onwards the temperature is within
\* 0.01 of 10.
C9_WithinTolFrom5Tau ==
    (TestRun /\ k * dt >= 5 * TimeConstant) => Abs(temp_exp - 10 * Scale) <= Tol

\* C9: from 7 time constants (700 s) onwards the temperature, started at zero, is
\* within 0.01 of 10; at 5 time constants it is still more than 0.05 away.
C9_WithinTolFrom7Tau ==
    /\ (TestRun /\ k * dt >= 7 * TimeConstant) => Abs(temp_exp - 10 * Scale) <= Tol
    /\ (TestRun /\ k * dt = 5 * TimeConstant) => Abs(temp_exp - 10 * Scale) > 5 * Tol

C9_Witness ==
    /\ TestRun /\ pc = "R846"
    /\ k * dt = 7 * TimeConstant
    /\ temp_exp < 10 * Scale /\ Abs(temp_exp - 10 * Scale) <= Tol

\* C10: dtmax is the minimum of -2 / lambda over the eigenvalues of As, and an
\* eigenvalue that is not negative is reported as InstabilityWarning, the
\* analysis going on.
C10_DtmaxReported ==
    (study = "rc" /\ "dtmax" \in defined) =>
        /\ RaisedAt(766, 766) = {}
        /\ AsNum(ss) # 0 => dtmax = Number(-2 * Den(ss), AsNum(ss))
        /\ AsNum(ss) >= 0 =>
              \E i \in 1 .. Len(warn) : warn[i].kind = "InstabilityWarning"


---------------------------------------------------------------------------
(* Properties of the run as a whole *)

\* an integration loop is at its header with its trajectory arrays bound
Looping ==
    \/ study = "rc" /\ pc \in {"R846", "R966"}
    \/ study = "cube" /\ pc = "L846" /\ {"temp_exp", "temp_imp"} \subseteq defined

\* C11: the initial state of every integration run is a value that was supplied
\* or selected explicitly; a run does not start from the zeros its trajectory
\* array happened to be allocated with.
C11_InitialStateChosen ==
    Looping => traj.init = "value"


\* the nodes with no incident branch: the all-zero columns of A
Islands(A_) == {j \in Nodes : \A kk \in Branches : A_[kk][j] = 0}

\* the run is past cell c
After(c) ==
    \E i, j \in 1 .. Len(Order) : i < j /\ Order[i] = c /\ Order[j] = pc

\* C12: when some node has no incident branch, assembling A^T G A and solving the
\* steady state (lines 686, 874) fail with SingularTopologyError and leave no
\* result.
C12_IslandRaisesTopologyError ==
    (study = "cube" /\ "A" \in defined /\ Islands(A) # {}) =>
        /\ \A i \in RaisedAt(686, 686) \cup RaisedAt(874, 874) :
              err[i].kind = "SingularTopologyError"
        /\ After("L686") => RaisedAt(686, 686) # {}
        /\ pc = "done" => RaisedAt(874, 874) # {}
        /\ "theta" \notin defined /\ "ytc" \notin defined


\* C13: building the network fails with ConfigurationError, and exposes no A, G
\* or C, when a branch refers to a node index that does not exist, when a
\* conductance is not positive, or when a capacitance is negative.
C13_BuildValidates ==
    study = "cube" =>
        /\ \A i \in RaisedAt(533, 571) : err[i].kind = "ConfigurationError"
        /\ (BadWrite(WritesOf(net)) # 0 /\ (After("L533") \/ pc = "halt")) =>
              /\ RaisedAt(533, 571) # {}
              /\ defined \cap {"A", "G", "C"} = {}
        /\ "G" \in defined => \A kk \in Branches : G[kk] > 0
        /\ "C" \in defined => \A i \in Nodes : C[i] >= 0


\* C14: the state vector of the reduced system has one entry per node with a
\* nonzero capacity, n_C of them, in ascending node order; for the cube these are
\* the nodes 1, 3, 6, 7, and no capacity is negative.
C14_StateOrder ==
    /\ (study = "cube" /\ "C" \in defined) => \A i \in Nodes : C[i] >= 0
    /\ (study = "cube" /\ "As" \in defined) =>
          /\ ss.nC = Cardinality({i \in Nodes : C[i] # 0})
          /\ Len(ss.states) = ss.nC
          /\ {ss.states[j] : j \in 1 .. Len(ss.states)} = {i \in Nodes : C[i] # 0}
          /\ \A j \in 1 .. Len(ss.states) - 1 : ss.states[j] < ss.states[j + 1]
          /\ ss.states = <<1, 3, 6, 7>>

C14_Witness ==
    /\ study = "cube" /\ "As" \in defined /\ pc = "L669"
    /\ ss.nC = 4 /\ ss.states[3] = 6
    /\ C[6] = Cair /\ C[0] = 0


\* the reduced system held was derived from the inputs now in effect; of b and f
\* only the positions of the nonzero entries count
Current(s) ==
    /\ s.args.A = A /\ s.args.G = G /\ s.args.C = C /\ s.args.y = y
    /\ NonZero(s.args.b) = NonZero(b)
    /\ NonZero(s.args.f) = NonZero(f)

\* C15: the reduced system a steady-state formula or an integration step uses is
\* the one derived from the A, G, C, b, f, y in effect at that moment (recomputed
\* after any of them changed), and it is what the last reduction returned, never
\* modified afterwards.
C15_ReducedSystemCurrent ==
    /\ (study = "cube" /\ "As" \in defined) => calls # << >> /\ ss = Last(calls)
    /\ Multiplies => Current(ss)


CheckSolved == study = "cube" /\ net = "file" /\ "theta" \in defined

Boundary(A_) ==
    {kk \in Branches : \E j \in Nodes : A_[kk][j] = 1 /\ NonZeroAt(A_[kk]) = {j}}

\* source T on every boundary branch of positive conductance, s on those of zero
\* conductance
SameSource(A_, G_, T, s) ==
    [kk \in Branches |->
        IF kk \in Boundary(A_) THEN (IF G_[kk] > 0 THEN T ELSE s) ELSE 0]

StraySources == {0, 20, 120}

C19_AssignedBeforeRead ==
    (study = "cube" /\ net = "file") =>
        /\ \A i \in 1 .. Len(err) : err[i].kind # "NameError"
        /\ pc = "L719" => "ytc" \in defined


\* a loop is running on arrays that were all set up
InLoop ==
    \/ study = "rc" /\ pc \in {"R846", "R966"}
    \/ study = "cube" /\ pc = "L846" /\ {"t", "u", "temp_exp", "temp_imp"} \subseteq defined

\* a loop has run to its end
LoopEnded ==
    \/ study = "rc" /\ pc \in {"R870", "done"}
    \/ study = "cube" /\ {"t", "u", "temp_exp", "temp_imp", "I"} \subseteq defined
         /\ RaisedAt(845, 848) = {} /\ After("L845")

\* an update of a loop that raised nothing
Update == Rc846_step \/ Rc966_step \/ (Loop846_step /\ err' = err)

\* a pass of a loop, or leaving it
LoopStep ==
    Loop846_step \/ Loop846_exit \/ Rc846_step \/ Rc846_exit \/ Rc966_step \/ Rc966_exit

\* C20: a loop over a series of N samples makes exactly N - 1 updates, k = 0, 1,
\* ..., N - 2 in ascending order, and ends (k grows with every update, stays
\* below N, and the loop can always go on or leave); update k reads column k and input k
\* and writes column k + 1, so never column 0 nor an index outside 0 .. N - 1;
\* t, the input series and the trajectories all have N samples.
C20_LoopBounds ==
    /\ [](/\ (InLoop \/ LoopEnded) =>
                /\ traj.t = u.cols /\ traj.cols = u.cols
                /\ (study = "cube" \/ rc.input = "step") => u.cols = n
                /\ k \in 0 .. u.cols - 1
                /\ \/ acc = NoAccess /\ k = 0
                   \/ /\ acc.read \in 0 .. u.cols - 2
                      /\ acc.inp = acc.read
                      /\ acc.write = acc.read + 1
          /\ InLoop => ENABLED LoopStep
          /\ LoopEnded => k = u.cols - 1)
    /\ [][Update =>
             /\ acc' = [read |-> k, inp |-> k, write |-> k + 1]
             /\ k + 1 \in 1 .. u.cols - 1
             /\ err' = err => k' = k + 1]_vars

C20_Witness ==
    /\ study = "cube" /\ net = "file" /\ pc = "L856" /\ LoopEnded
    /\ u.cols = NSamples /\ traj.cols = NSamples
    /\ k = n - 1 /\ acc = [read |-> n - 2, inp |-> n - 2, write |-> n - 1]

====
